---- MODULE Spec2Model ----
(***************************************************************************)
(* The door / lock actor pair of src/app/Door.tsx, run by the statechart   *)
(* engine of spec.md: each actor has a mailbox, processes one event per    *)
(* macro-step (event transition, then completion transitions, then         *)
(* notification), invocations are tagged with a generation, and the lock   *)
(* child is spawned with syncSnapshot.                                     *)
(***************************************************************************)
EXTENDS Integers, Sequences, FiniteSets, TLC

VARIABLES
  doorConfig,   \* door: set of active state paths
  doorCtx,      \* door: context {locked, error} (lockRef is the constant child id "lock")
  doorMailbox,  \* door: queue of events
  doorPhase,    \* door: "waiting" for an event, or "running" a macro-step
  doorCur,      \* door: the event of the running macro-step
  doorPre,      \* door: configuration and context at the start of the running macro-step
  doorInv,      \* door: invocation generations per invoking state
  lockConfig, lockCtx, lockMailbox, lockPhase, lockCur, lockPre, lockInv,
  inflight,     \* promises started and not yet settled
  sent,         \* number of events the user has sent
  lockSeq,      \* number of macro-steps the lock has completed
  doorSeen,     \* number of xstate.snapshot.lock events the door has processed
  stored,       \* localStorage item "door"
  storedPending,\* history: whether an invocation was pending when the item was stored
  reloads,      \* number of times the component was mounted from a stored snapshot
  lockAccepted, \* history: password of the lock.lock the lock accepted last
  status        \* status of each actor: "active" (running), "done" or "error"

vars == <<doorConfig, doorCtx, doorMailbox, doorPhase, doorCur, doorPre, doorInv,
          lockConfig, lockCtx, lockMailbox, lockPhase, lockCur, lockPre, lockInv,
          inflight, sent, lockSeq, doorSeen, stored, storedPending, reloads, status, lockAccepted>>

doorVars == <<doorConfig, doorCtx, doorMailbox, doorPhase, doorCur, doorPre, doorInv>>
lockVars == <<lockConfig, lockCtx, lockMailbox, lockPhase, lockCur, lockPre, lockInv,
              lockAccepted>>
persistVars == <<stored, storedPending, reloads>>

(***************************************************************************)
(* Bounds                                                                  *)
(***************************************************************************)
MaxEvents == 3
MaxReloads == 1
MaxPersistEvents == 2
MaxGen == 2

(***************************************************************************)
(* Inputs and messages                                                     *)
(***************************************************************************)
\* the passwords the Lock button and the two Unlock buttons send
LockPasswords == {"1234"}
UnlockPasswords == {"1234", "4321"}

LockJammed == "Couldn't lock (maybe the lock jammed)"
UnlockJammed == "Couldn't unlock (maybe the lock jammed)"
OpenStuck == "Couldn't open the door (maybe it's stuck)"
CloseStuck == "Couldn't close the door (maybe it's stuck)"

Resolved == [ok |-> TRUE, message |-> ""]
Rejected(msg) == [ok |-> FALSE, message |-> msg]

\* the four promise actors: each either resolves or throws its Error
lock == {Resolved, Rejected(LockJammed)}
unlock == {Resolved, Rejected(UnlockJammed)}
openDoor == {Resolved, Rejected(OpenStuck)}
closeDoor == {Resolved, Rejected(CloseStuck)}

Outcomes(src) ==
  CASE src = "lock" -> lock
    [] src = "unlock" -> unlock
    [] src = "openDoor" -> openDoor
    [] src = "closeDoor" -> closeDoor

(***************************************************************************)
(* State paths                                                             *)
(***************************************************************************)
Closed == <<"closed">>
ClosedIdle == <<"closed", "idle">>
ClosedOpening == <<"closed", "opening">>
ClosedOpened == <<"closed", "opened">>
Open == <<"open">>
OpenIdle == <<"open", "idle">>
OpenClosing == <<"open", "closing">>
OpenClosed == <<"open", "closed">>

Unlocked == <<"unlocked">>
UnlockedIdle == <<"unlocked", "idle">>
UnlockedLocking == <<"unlocked", "locking">>
UnlockedLocked == <<"unlocked", "locked">>
Locked == <<"locked">>
LockedIdle == <<"locked", "idle">>
LockedUnlocking == <<"locked", "unlocking">>
LockedUnlocked == <<"locked", "unlocked">>

DoorTops == {Closed, Open}
DoorLeaves == {ClosedIdle, ClosedOpening, ClosedOpened, OpenIdle, OpenClosing, OpenClosed}
DoorFinalClosedOnly == {OpenClosed}
DoorFinal == {ClosedOpened, OpenClosed}
DoorInvoking == {ClosedOpening, OpenClosing}
DoorSrc(s) == IF s = ClosedOpening THEN "openDoor" ELSE "closeDoor"
\* invoking states whose invoke declares onError
DoorOnErrorClosingOnly == {OpenClosing}
DoorOnError == {ClosedOpening, OpenClosing}

LockTops == {Unlocked, Locked}
LockLeaves == {UnlockedIdle, UnlockedLocking, UnlockedLocked,
               LockedIdle, LockedUnlocking, LockedUnlocked}
LockFinal == {UnlockedLocked, LockedUnlocked}
LockInvoking == {UnlockedLocking, LockedUnlocking}
LockSrc(s) == IF s = UnlockedLocking THEN "lock" ELSE "unlock"
LockOnError == {UnlockedLocking, LockedUnlocking}

\* every compound state of both machines declares initial: "idle"
InitialChild(top) == top \o <<"idle">>

IsPrefix(p, s) == Len(p) <= Len(s) /\ SubSeq(s, 1, Len(p)) = p

\* states left when `from` is exited: `from` and its active descendants
ExitSet(config, from) == {s \in config : IsPrefix(from, s)}

\* states entered when `to` is the target: `to`, and its initial child if compound
EntrySet(to) == IF Len(to) = 1 THEN {to, InitialChild(to)} ELSE {to}

GotoNoExit(config, from, to) == config \cup EntrySet(to)

\* take a transition whose source `from` is exited and whose target is `to`
Goto(config, from, to) == (config \ ExitSet(config, from)) \cup EntrySet(to)

\* snapshot.value of a configuration: { <top>: <sub> }
ValueOf(config) ==
  LET leaf == CHOOSE s \in config : Len(s) = 2
  IN  [top |-> leaf[1], sub |-> leaf[2]]

\* the configuration a snapshot value resolves to
ConfigOf(value) == {<<value.top>>, <<value.top, value.sub>>}

(***************************************************************************)
(* Events                                                                  *)
(***************************************************************************)
NoSnapshot == [value |-> [top |-> "", sub |-> ""],
               context |-> [password |-> "", error |-> ""]]

\* seq and cause are history tags of a snapshot event: the number of the lock
\* macro-step that emitted it and the type of the event that macro-step processed
Event(type, password, state, gen, error, snapshot, seq, cause) ==
  [type |-> type, password |-> password, state |-> state, gen |-> gen,
   error |-> error, snapshot |-> snapshot, seq |-> seq, cause |-> cause]

NoEvent == Event("", "", <<>>, 0, "", NoSnapshot, 0, "")
UserEvent(type, password) == Event(type, password, <<>>, 0, "", NoSnapshot, 0, "")
DoneEvent(state, gen) == Event("xstate.done.actor", "", state, gen, "", NoSnapshot, 0, "")
ErrorEvent(state, gen, msg) ==
  Event("xstate.error.actor", "", state, gen, msg, NoSnapshot, 0, "")
SnapshotEvent(snapshot, seq, cause) ==
  Event("xstate.snapshot.lock", "", <<>>, 0, "", snapshot, seq, cause)
IsSnapshotEvent(e) == e.type = "xstate.snapshot.lock"

IsOutcome(e) == e.type \in {"xstate.done.actor", "xstate.error.actor"}

NoPre == [config |-> {}, ctx |-> [none |-> TRUE], fresh |-> FALSE]

(***************************************************************************)
(* Invocation manager                                                      *)
(***************************************************************************)
NoInvocations(invoking) ==
  [active |-> [s \in invoking |-> 0], issued |-> [s \in invoking |-> 0]]

AcceptedAnyGeneration(inv, e) == e.state \in DOMAIN inv.active

\* an outcome is accepted only if its generation is the one recorded for its state
Accepted(inv, e) ==
  /\ e.state \in DOMAIN inv.active
  /\ inv.active[e.state] # 0
  /\ e.gen = inv.active[e.state]

\* history: whether the outcome e carried the generation recorded when it was dequeued
Matches(inv, e) ==
  /\ IsOutcome(e)
  /\ e.state \in DOMAIN inv.active
  /\ e.gen # 0
  /\ inv.active[e.state] = e.gen

\* generations after the configuration changed from old to new
Generations(inv, old, new) ==
  LET entered == (new \ old) \cap DOMAIN inv.active
      exited == (old \ new) \cap DOMAIN inv.active
  IN  [active |-> [s \in DOMAIN inv.active |->
                     IF s \in entered THEN inv.issued[s] + 1
                     ELSE IF s \in exited THEN 0 ELSE inv.active[s]],
       issued |-> [s \in DOMAIN inv.issued |->
                     IF s \in entered THEN inv.issued[s] + 1 ELSE inv.issued[s]]]

\* status of an actor after a transition: a failure of the active invocation with
\* no declared failure transition stops the actor with status "error", a final
\* state of the machine itself (top level) completes it with status "done"
StatusAfter(st, old, new, final, onError, inv, e) ==
  IF st # "active" THEN st
  ELSE IF /\ e.type = "xstate.error.actor"
          /\ e.state \in old
          /\ Accepted(inv, e)
          /\ e.state \notin onError THEN "error"
  ELSE IF \E s \in new \cap final : Len(s) = 1 THEN "done"
  ELSE "active"

\* promises started by entering invoking states
Started(actor, inv, old, new) ==
  {[actor |-> actor, state |-> s, gen |-> inv.issued[s] + 1] :
     s \in (new \ old) \cap DOMAIN inv.active}

(***************************************************************************)
(* lockMachine                                                             *)
(***************************************************************************)
Result(config, ctx, sends) == [config |-> config, ctx |-> ctx, sends |-> sends]

assignPassword(ctx, e) == [ctx EXCEPT !.password = e.password]
clearPassword(ctx) == [ctx EXCEPT !.password = ""]
clearError(ctx) == [ctx EXCEPT !.error = ""]
assignError(ctx, e) == [ctx EXCEPT !.error = e.error]

isCorrectPasswordAny(ctx, e) == TRUE
isCorrectPassword(ctx, e) == ctx.password = e.password

\* unlocked.idle on lock.lock
LockLock(config, ctx, e) ==
  Result(Goto(config, UnlockedIdle, UnlockedLocking), assignPassword(ctx, e), <<>>)

\* unlocked.locking invoke.onDone / invoke.onError
LockingDone(config, ctx, e) ==
  Result(Goto(config, UnlockedLocking, UnlockedLocked), ctx, <<>>)
LockingError(config, ctx, e) ==
  Result(Goto(config, UnlockedLocking, UnlockedIdle), assignError(ctx, e), <<>>)

\* locked.idle on lock.unlock
LockUnlock(config, ctx, e) ==
  IF isCorrectPassword(ctx, e)
  THEN Result(Goto(config, LockedIdle, LockedUnlocking), ctx, <<>>)
  ELSE Result(config, ctx, <<>>)

\* locked.unlocking invoke.onDone / invoke.onError
UnlockingDone(config, ctx, e) ==
  Result(Goto(config, LockedUnlocking, LockedUnlocked), ctx, <<>>)
UnlockingErrorClearsPassword(config, ctx, e) ==
  Result(Goto(config, LockedUnlocking, LockedIdle), clearPassword(assignError(ctx, e)), <<>>)
UnlockingError(config, ctx, e) ==
  Result(Goto(config, LockedUnlocking, LockedIdle), assignError(ctx, e), <<>>)

\* unlocked.onDone, locked.onDone
UnlockedOnDone(config, ctx) ==
  Result(Goto(config, Unlocked, Locked), clearError(ctx), <<>>)
LockedOnDoneKeepPassword(config, ctx) ==
  Result(Goto(config, Locked, Unlocked), clearError(ctx), <<>>)
LockedOnDone(config, ctx) ==
  Result(Goto(config, Locked, Unlocked), clearError(clearPassword(ctx)), <<>>)

\* the transition the lock selects for event e (innermost state first)
LockTransition(config, ctx, inv, e) ==
  CASE e.type = "lock.lock" /\ UnlockedIdle \in config -> LockLock(config, ctx, e)
    [] e.type = "lock.unlock" /\ LockedIdle \in config -> LockUnlock(config, ctx, e)
    [] e.type = "xstate.done.actor" /\ e.state = UnlockedLocking
         /\ UnlockedLocking \in config /\ Accepted(inv, e) -> LockingDone(config, ctx, e)
    [] e.type = "xstate.error.actor" /\ e.state = UnlockedLocking /\ e.state \in LockOnError
         /\ UnlockedLocking \in config /\ Accepted(inv, e) -> LockingError(config, ctx, e)
    [] e.type = "xstate.done.actor" /\ e.state = LockedUnlocking
         /\ LockedUnlocking \in config /\ Accepted(inv, e) -> UnlockingDone(config, ctx, e)
    [] e.type = "xstate.error.actor" /\ e.state = LockedUnlocking /\ e.state \in LockOnError
         /\ LockedUnlocking \in config /\ Accepted(inv, e) -> UnlockingError(config, ctx, e)
    [] OTHER -> Result(config, ctx, <<>>)

LockOnDone(config, ctx) ==
  IF UnlockedLocked \in config THEN UnlockedOnDone(config, ctx)
  ELSE LockedOnDone(config, ctx)

(***************************************************************************)
(* doorMachine                                                             *)
(***************************************************************************)
\* root entry: spawn("lockMachine", { id: "lock", syncSnapshot: true })
SpawnOptionsNoSync == [id |-> "lock", syncSnapshot |-> FALSE]
SpawnOptions == [id |-> "lock", syncSnapshot |-> TRUE]

doorClearError(ctx) == [ctx EXCEPT !.error = ""]

\* root on xstate.snapshot.lock
SnapshotAssignLockedOnly(ctx, e) == [ctx EXCEPT !.locked = (e.snapshot.value.top = "locked")]
SnapshotAssignErrorOnly(ctx, e) == [ctx EXCEPT !.error = e.snapshot.context.error]
SnapshotAssign(ctx, e) ==
  [ctx EXCEPT !.locked = (e.snapshot.value.top = "locked"),
              !.error = e.snapshot.context.error]

\* closed.idle on door.open
DoorOpenGuardInverted(ctx) == ctx.locked
DoorOpenGuardAlways(ctx) == TRUE
DoorOpenGuard(ctx) == ~ctx.locked
DoorOpen(config, ctx, e) ==
  IF DoorOpenGuard(ctx)
  THEN Result(Goto(config, ClosedIdle, ClosedOpening), ctx, <<>>)
  ELSE Result(config, ctx, <<>>)

\* closed.idle on door.lock / door.unlock
DoorLockNoPassword(config, ctx, e) ==
  Result(config, ctx, <<UserEvent("lock.lock", "")>>)
DoorLock(config, ctx, e) ==
  Result(config, ctx, <<UserEvent("lock.lock", e.password)>>)
DoorUnlock(config, ctx, e) ==
  Result(config, ctx, <<UserEvent("lock.unlock", e.password)>>)

\* closed.opening invoke.onDone / invoke.onError
OpeningDone(config, ctx, e) ==
  Result(Goto(config, ClosedOpening, ClosedOpened), ctx, <<>>)
OpeningErrorNoAssign(config, ctx, e) ==
  Result(Goto(config, ClosedOpening, ClosedIdle), ctx, <<>>)
OpeningError(config, ctx, e) ==
  Result(Goto(config, ClosedOpening, ClosedIdle), assignError(ctx, e), <<>>)

\* open.idle on door.close
DoorClose(config, ctx, e) ==
  Result(Goto(config, OpenIdle, OpenClosing), ctx, <<>>)

\* open.closing invoke.onDone / invoke.onError
ClosingDone(config, ctx, e) ==
  Result(Goto(config, OpenClosing, OpenClosed), ctx, <<>>)
ClosingError(config, ctx, e) ==
  Result(Goto(config, OpenClosing, OpenIdle), assignError(ctx, e), <<>>)

\* closed.onDone, open.onDone
ClosedOnDoneKeepError(config, ctx) ==
  Result(Goto(config, Closed, Open), ctx, <<>>)
ClosedOnDone(config, ctx) ==
  Result(Goto(config, Closed, Open), doorClearError(ctx), <<>>)
OpenOnDone(config, ctx) ==
  Result(Goto(config, Open, Closed), doorClearError(ctx), <<>>)

\* door.lock / door.unlock declared on closed instead of closed.idle
DoorTransitionLockOnClosed(config, ctx, inv, e) ==
  CASE e.type = "door.open" /\ ClosedIdle \in config -> DoorOpen(config, ctx, e)
    [] e.type = "door.lock" /\ Closed \in config -> DoorLock(config, ctx, e)
    [] e.type = "door.unlock" /\ Closed \in config -> DoorUnlock(config, ctx, e)
    [] e.type = "door.close" /\ OpenIdle \in config -> DoorClose(config, ctx, e)
    [] e.type = "xstate.done.actor" /\ e.state = ClosedOpening
         /\ ClosedOpening \in config /\ Accepted(inv, e) -> OpeningDone(config, ctx, e)
    [] e.type = "xstate.error.actor" /\ e.state = ClosedOpening /\ e.state \in DoorOnError
         /\ ClosedOpening \in config /\ Accepted(inv, e) -> OpeningError(config, ctx, e)
    [] e.type = "xstate.done.actor" /\ e.state = OpenClosing
         /\ OpenClosing \in config /\ Accepted(inv, e) -> ClosingDone(config, ctx, e)
    [] e.type = "xstate.error.actor" /\ e.state = OpenClosing /\ e.state \in DoorOnError
         /\ OpenClosing \in config /\ Accepted(inv, e) -> ClosingError(config, ctx, e)
    [] e.type = "xstate.snapshot.lock" -> Result(config, SnapshotAssign(ctx, e), <<>>)
    [] OTHER -> Result(config, ctx, <<>>)

\* door.close also declared on closed.opening, leaving it for closed.idle
DoorTransitionCloseCancels(config, ctx, inv, e) ==
  CASE e.type = "door.open" /\ ClosedIdle \in config -> DoorOpen(config, ctx, e)
    [] e.type = "door.lock" /\ ClosedIdle \in config -> DoorLock(config, ctx, e)
    [] e.type = "door.unlock" /\ ClosedIdle \in config -> DoorUnlock(config, ctx, e)
    [] e.type = "door.close" /\ OpenIdle \in config -> DoorClose(config, ctx, e)
    [] e.type = "door.close" /\ ClosedOpening \in config ->
         Result(Goto(config, ClosedOpening, ClosedIdle), ctx, <<>>)
    [] e.type = "xstate.done.actor" /\ e.state = ClosedOpening
         /\ ClosedOpening \in config /\ Accepted(inv, e) -> OpeningDone(config, ctx, e)
    [] e.type = "xstate.error.actor" /\ e.state = ClosedOpening /\ e.state \in DoorOnError
         /\ ClosedOpening \in config /\ Accepted(inv, e) -> OpeningError(config, ctx, e)
    [] e.type = "xstate.done.actor" /\ e.state = OpenClosing
         /\ OpenClosing \in config /\ Accepted(inv, e) -> ClosingDone(config, ctx, e)
    [] e.type = "xstate.error.actor" /\ e.state = OpenClosing /\ e.state \in DoorOnError
         /\ OpenClosing \in config /\ Accepted(inv, e) -> ClosingError(config, ctx, e)
    [] e.type = "xstate.snapshot.lock" -> Result(config, SnapshotAssign(ctx, e), <<>>)
    [] OTHER -> Result(config, ctx, <<>>)

\* the transition the door selects for event e (innermost state first, then the root)
DoorTransition(config, ctx, inv, e) ==
  CASE e.type = "door.open" /\ ClosedIdle \in config -> DoorOpen(config, ctx, e)
    [] e.type = "door.lock" /\ ClosedIdle \in config -> DoorLock(config, ctx, e)
    [] e.type = "door.unlock" /\ ClosedIdle \in config -> DoorUnlock(config, ctx, e)
    [] e.type = "door.close" /\ OpenIdle \in config -> DoorClose(config, ctx, e)
    [] e.type = "xstate.done.actor" /\ e.state = ClosedOpening
         /\ ClosedOpening \in config /\ Accepted(inv, e) -> OpeningDone(config, ctx, e)
    [] e.type = "xstate.error.actor" /\ e.state = ClosedOpening /\ e.state \in DoorOnError
         /\ ClosedOpening \in config /\ Accepted(inv, e) -> OpeningError(config, ctx, e)
    [] e.type = "xstate.done.actor" /\ e.state = OpenClosing
         /\ OpenClosing \in config /\ Accepted(inv, e) -> ClosingDone(config, ctx, e)
    [] e.type = "xstate.error.actor" /\ e.state = OpenClosing /\ e.state \in DoorOnError
         /\ OpenClosing \in config /\ Accepted(inv, e) -> ClosingError(config, ctx, e)
    [] e.type = "xstate.snapshot.lock" -> Result(config, SnapshotAssign(ctx, e), <<>>)
    [] OTHER -> Result(config, ctx, <<>>)

DoorOnDone(config, ctx) ==
  IF ClosedOpened \in config THEN ClosedOnDone(config, ctx)
  ELSE OpenOnDone(config, ctx)

(***************************************************************************)
(* Initial state                                                           *)
(***************************************************************************)
DoorInitialContext == [locked |-> FALSE, error |-> ""]
LockInitialContext == [password |-> "", error |-> ""]
NoStored == [status |-> "none"]

InitActors ==
  /\ doorConfig = EntrySet(Closed)
  /\ doorCtx = DoorInitialContext
  /\ doorMailbox = <<>>
  /\ doorPhase = "waiting"
  /\ doorCur = NoEvent
  /\ doorPre = NoPre
  /\ doorInv = NoInvocations(DoorInvoking)
  /\ lockConfig = EntrySet(Unlocked)
  /\ lockCtx = LockInitialContext
  /\ lockMailbox = <<>>
  /\ lockPhase = "waiting"
  /\ lockCur = NoEvent
  /\ lockPre = NoPre
  /\ lockInv = NoInvocations(LockInvoking)
  /\ inflight = {}
  /\ lockSeq = 0
  /\ doorSeen = 0
  /\ status = [door |-> "active", lock |-> "active"]
  /\ lockAccepted = ""

Init ==
  /\ InitActors
  /\ sent = 0
  /\ stored = NoStored
  /\ storedPending = FALSE
  /\ reloads = 0

(***************************************************************************)
(* The user interface: the five buttons                                    *)
(***************************************************************************)
Send(type, password) ==
  /\ sent < MaxEvents
  /\ sent' = sent + 1
  /\ doorMailbox' = Append(doorMailbox, UserEvent(type, password))
  /\ UNCHANGED <<doorConfig, doorCtx, doorPhase, doorCur, doorPre, doorInv>>
  /\ UNCHANGED <<lockVars, inflight, lockSeq, doorSeen, persistVars, status>>

SendOpen == Send("door.open", "")
SendClose == Send("door.close", "")
SendLock == \E pw \in LockPasswords : Send("door.lock", pw)
SendUnlock == \E pw \in UnlockPasswords : Send("door.unlock", pw)

(***************************************************************************)
(* The door's macro-step                                                   *)
(***************************************************************************)
\* a mailbox served newest event first
DoorDequeueNewestFirst ==
  /\ doorPhase = "waiting"
  /\ doorMailbox # <<>>
  /\ status.door = "active"
  /\ LET e == doorMailbox[Len(doorMailbox)]
         r == DoorTransition(doorConfig, doorCtx, doorInv, e)
     IN  /\ doorConfig' = r.config
         /\ doorCtx' = r.ctx
         /\ lockMailbox' = lockMailbox \o r.sends
         /\ doorInv' = Generations(doorInv, doorConfig, r.config)
         /\ inflight' = inflight \cup Started("door", doorInv, doorConfig, r.config)
         /\ doorCur' = e
         /\ doorPre' = [config |-> doorConfig, ctx |-> doorCtx,
                        fresh |-> Matches(doorInv, e)]
         /\ doorSeen' = IF e.type = "xstate.snapshot.lock" THEN doorSeen + 1 ELSE doorSeen
         /\ status' = [status EXCEPT !.door = StatusAfter(status.door, doorConfig, r.config,
                                                         DoorFinal, DoorOnError, doorInv, e)]
  /\ doorMailbox' = SubSeq(doorMailbox, 1, Len(doorMailbox) - 1)
  /\ doorPhase' = "running"
  /\ UNCHANGED <<lockConfig, lockCtx, lockPhase, lockCur, lockPre, lockInv, lockAccepted>>
  /\ UNCHANGED <<sent, lockSeq, persistVars>>

\* the door takes the oldest event of its mailbox and runs its transition
DoorDequeue ==
  /\ doorPhase = "waiting"
  /\ doorMailbox # <<>>
  /\ status.door = "active"
  /\ LET e == Head(doorMailbox)
         r == DoorTransition(doorConfig, doorCtx, doorInv, e)
     IN  /\ doorConfig' = r.config
         /\ doorCtx' = r.ctx
         /\ lockMailbox' = lockMailbox \o r.sends
         /\ doorInv' = Generations(doorInv, doorConfig, r.config)
         /\ inflight' = inflight \cup Started("door", doorInv, doorConfig, r.config)
         /\ doorCur' = e
         /\ doorPre' = [config |-> doorConfig, ctx |-> doorCtx,
                        fresh |-> Matches(doorInv, e)]
         /\ doorSeen' = IF e.type = "xstate.snapshot.lock" THEN doorSeen + 1 ELSE doorSeen
         /\ status' = [status EXCEPT !.door = StatusAfter(status.door, doorConfig, r.config,
                                                         DoorFinal, DoorOnError, doorInv, e)]
  /\ doorMailbox' = Tail(doorMailbox)
  /\ doorPhase' = "running"
  /\ UNCHANGED <<lockConfig, lockCtx, lockPhase, lockCur, lockPre, lockInv, lockAccepted>>
  /\ UNCHANGED <<sent, lockSeq, persistVars>>

DoorCompletion ==
  /\ doorPhase = "running"
  /\ doorConfig \cap DoorFinal # {}
  /\ LET r == DoorOnDone(doorConfig, doorCtx)
     IN  /\ doorConfig' = r.config
         /\ doorCtx' = r.ctx
         /\ doorInv' = Generations(doorInv, doorConfig, r.config)
         /\ inflight' = inflight \cup Started("door", doorInv, doorConfig, r.config)
         /\ status' = [status EXCEPT !.door = StatusAfter(status.door, doorConfig, r.config,
                                                         DoorFinal, DoorOnError, doorInv, NoEvent)]
  /\ UNCHANGED <<doorMailbox, doorPhase, doorCur, doorPre>>
  /\ UNCHANGED <<lockVars, sent, lockSeq, doorSeen, persistVars>>

DoorNotify ==
  /\ doorPhase = "running"
  /\ doorConfig \cap DoorFinal = {}
  /\ doorPhase' = "waiting"
  /\ doorCur' = NoEvent
  /\ doorPre' = NoPre
  /\ UNCHANGED <<doorConfig, doorCtx, doorMailbox, doorInv>>
  /\ UNCHANGED <<lockVars, inflight, sent, lockSeq, doorSeen, persistVars, status>>

(***************************************************************************)
(* The lock's macro-step                                                   *)
(***************************************************************************)
LockSnapshot == [value |-> ValueOf(lockConfig), context |-> lockCtx]

LockDequeue ==
  /\ lockPhase = "waiting"
  /\ lockMailbox # <<>>
  /\ status.lock = "active"
  /\ LET e == Head(lockMailbox)
         r == LockTransition(lockConfig, lockCtx, lockInv, e)
     IN  /\ lockConfig' = r.config
         /\ lockCtx' = r.ctx
         /\ lockInv' = Generations(lockInv, lockConfig, r.config)
         /\ inflight' = inflight \cup Started("lock", lockInv, lockConfig, r.config)
         /\ lockCur' = e
         /\ lockPre' = [config |-> lockConfig, ctx |-> lockCtx,
                        fresh |-> Matches(lockInv, e)]
         /\ lockAccepted' = IF e.type = "lock.lock" /\ UnlockedIdle \in lockConfig
                             THEN e.password ELSE lockAccepted
         /\ status' = [status EXCEPT !.lock = StatusAfter(status.lock, lockConfig, r.config,
                                                         LockFinal, LockOnError, lockInv, e)]
  /\ lockMailbox' = Tail(lockMailbox)
  /\ lockPhase' = "running"
  /\ UNCHANGED <<doorVars, sent, lockSeq, doorSeen, persistVars>>

LockCompletion ==
  /\ lockPhase = "running"
  /\ lockConfig \cap LockFinal # {}
  /\ LET r == LockOnDone(lockConfig, lockCtx)
     IN  /\ lockConfig' = r.config
         /\ lockCtx' = r.ctx
         /\ lockInv' = Generations(lockInv, lockConfig, r.config)
         /\ inflight' = inflight \cup Started("lock", lockInv, lockConfig, r.config)
         /\ status' = [status EXCEPT !.lock = StatusAfter(status.lock, lockConfig, r.config,
                                                         LockFinal, LockOnError, lockInv, NoEvent)]
  /\ UNCHANGED <<lockMailbox, lockPhase, lockCur, lockPre, lockAccepted>>
  /\ UNCHANGED <<doorVars, sent, lockSeq, doorSeen, persistVars>>

\* end of the lock's macro-step: with syncSnapshot the new snapshot goes to the parent
LockNotify ==
  /\ lockPhase = "running"
  /\ lockConfig \cap LockFinal = {}
  /\ lockPhase' = "waiting"
  /\ lockCur' = NoEvent
  /\ lockPre' = NoPre
  /\ lockSeq' = lockSeq + 1
  /\ doorMailbox' = IF SpawnOptions.syncSnapshot
                    THEN Append(doorMailbox,
                                SnapshotEvent(LockSnapshot, lockSeq + 1, lockCur.type))
                    ELSE doorMailbox
  /\ UNCHANGED <<lockConfig, lockCtx, lockMailbox, lockInv, lockAccepted>>
  /\ UNCHANGED <<doorConfig, doorCtx, doorPhase, doorCur, doorPre, doorInv>>
  /\ UNCHANGED <<inflight, sent, doorSeen, persistVars, status>>

(***************************************************************************)
(* Promises settle                                                         *)
(***************************************************************************)
OutcomeEvent(p, o) ==
  IF o.ok THEN DoneEvent(p.state, p.gen) ELSE ErrorEvent(p.state, p.gen, o.message)

SettleDoor ==
  \E p \in inflight : \E o \in Outcomes(DoorSrc(p.state)) :
    /\ p.actor = "door"
    /\ inflight' = inflight \ {p}
    /\ doorMailbox' = Append(doorMailbox, OutcomeEvent(p, o))
    /\ UNCHANGED <<doorConfig, doorCtx, doorPhase, doorCur, doorPre, doorInv>>
    /\ UNCHANGED <<lockVars, sent, lockSeq, doorSeen, persistVars, status>>

SettleLock ==
  \E p \in inflight : \E o \in Outcomes(LockSrc(p.state)) :
    /\ p.actor = "lock"
    /\ inflight' = inflight \ {p}
    /\ lockMailbox' = Append(lockMailbox, OutcomeEvent(p, o))
    /\ UNCHANGED <<lockConfig, lockCtx, lockPhase, lockCur, lockPre, lockInv, lockAccepted>>
    /\ UNCHANGED <<doorVars, sent, lockSeq, doorSeen, persistVars, status>>

Step ==
  \/ DoorDequeue
  \/ DoorCompletion
  \/ DoorNotify
  \/ LockDequeue
  \/ LockCompletion
  \/ LockNotify
  \/ SettleDoor
  \/ SettleLock

Next ==
  \/ SendOpen
  \/ SendClose
  \/ SendLock
  \/ SendUnlock
  \/ Step

Spec == Init /\ [][Next]_vars

(***************************************************************************)
(* Persistence: the Save button and mounting from the stored snapshot      *)
(***************************************************************************)
\* the lock child's snapshot, as kept under children.lock
LockPersisted == [status |-> status.lock, value |-> ValueOf(lockConfig), context |-> lockCtx]

\* getPersistedSnapshot() of the door: the actor reference in context.lockRef is
\* written as a reference to the child id, the child's snapshot under children
getPersistedSnapshot ==
  [status |-> status.door,
   value |-> ValueOf(doorConfig),
   context |-> [lockRef |-> [id |-> SpawnOptions.id],
                locked |-> doorCtx.locked,
                error |-> doorCtx.error],
   children |-> [lock |-> LockPersisted]]

\* the door context of a restored snapshot (lockRef is resolved to the child again)
RestoredDoorCtx(blob) == [locked |-> blob.context.locked, error |-> blob.context.error]

\* Save of the door's own snapshot only, the child as it is first spawned
SaveWithoutChildren ==
  /\ doorPhase = "waiting"
  /\ lockPhase = "waiting"
  /\ doorMailbox = <<>>
  /\ lockMailbox = <<>>
  /\ stored' = [getPersistedSnapshot EXCEPT
                  !.children.lock = [status |-> "active",
                                     value |-> ValueOf(EntrySet(Unlocked)),
                                     context |-> LockInitialContext]]
  /\ storedPending' = (inflight # {})
  /\ UNCHANGED <<doorVars, lockVars, inflight, sent, lockSeq, doorSeen, reloads, status>>

\* onClick of Save: localStorage.setItem("door", JSON.stringify(getPersistedSnapshot())).
\* A click handler runs as a task of its own, after the events of earlier tasks
\* were processed: both actors are waiting on empty mailboxes.
Save ==
  /\ doorPhase = "waiting"
  /\ lockPhase = "waiting"
  /\ doorMailbox = <<>>
  /\ lockMailbox = <<>>
  /\ stored' = getPersistedSnapshot
  /\ storedPending' = (inflight # {})
  /\ UNCHANGED <<doorVars, lockVars, inflight, sent, lockSeq, doorSeen, reloads, status>>

\* the page is loaded again: Door reads the item and DoorMachine starts the
\* machine from it; mailboxes and running promises of the old page are gone
Rehydrate ==
  /\ stored # NoStored
  /\ reloads < MaxReloads
  /\ reloads' = reloads + 1
  /\ doorConfig' = ConfigOf(stored.value)
  /\ doorCtx' = RestoredDoorCtx(stored)
  /\ lockConfig' = ConfigOf(stored.children.lock.value)
  /\ lockCtx' = stored.children.lock.context
  /\ doorMailbox' = <<>>
  /\ lockMailbox' = <<>>
  /\ doorPhase' = "waiting"
  /\ lockPhase' = "waiting"
  /\ doorCur' = NoEvent
  /\ lockCur' = NoEvent
  /\ doorPre' = NoPre
  /\ lockPre' = NoPre
  /\ doorInv' = NoInvocations(DoorInvoking)
  /\ lockInv' = NoInvocations(LockInvoking)
  /\ inflight' = {}
  /\ lockSeq' = 0
  /\ doorSeen' = 0
  /\ status' = [door |-> "active", lock |-> "active"]
  /\ lockAccepted' = stored.children.lock.context.password
  /\ UNCHANGED <<sent, stored, storedPending>>

\* the session with persistence: fewer user events, the Save button and reloads
SendPersist ==
  /\ sent < MaxPersistEvents
  /\ (SendOpen \/ SendClose \/ SendLock \/ SendUnlock)

NextPersist ==
  \/ SendPersist
  \/ Step
  \/ Save
  \/ Rehydrate

SpecPersist == Init /\ [][NextPersist]_vars

(***************************************************************************)
(* Delivery of invocation outcomes of any generation: one actor is drawn   *)
(* in a waiting state with an outcome in its mailbox whose generation was  *)
(* issued before, the current one or an earlier one.                       *)
(***************************************************************************)
DoorWaitingConfigs ==
  {{Closed, ClosedIdle}, {Closed, ClosedOpening}, {Open, OpenIdle}, {Open, OpenClosing}}
LockWaitingConfigs ==
  {{Unlocked, UnlockedIdle}, {Unlocked, UnlockedLocking},
   {Locked, LockedIdle}, {Locked, LockedUnlocking}}

\* generation records of an actor waiting in config: the invoking state that is
\* active holds the generation issued last, the others hold none
InvRecords(invoking, config) ==
  {r \in [active : [invoking -> 0..MaxGen], issued : [invoking -> 0..MaxGen]] :
     \A s \in invoking :
       /\ (r.active[s] # 0) <=> (s \in config)
       /\ (r.active[s] # 0) => (r.active[s] = r.issued[s])}

DoorOutcomeEvents(inv) ==
  UNION {{OutcomeEvent([state |-> s, gen |-> g], o) : o \in Outcomes(DoorSrc(s))} :
           <<s, g>> \in {x \in DoorInvoking \X (1..MaxGen) : x[2] <= inv.issued[x[1]]}}
LockOutcomeEvents(inv) ==
  UNION {{OutcomeEvent([state |-> s, gen |-> g], o) : o \in Outcomes(LockSrc(s))} :
           <<s, g>> \in {x \in LockInvoking \X (1..MaxGen) : x[2] <= inv.issued[x[1]]}}

\* the promises still running: the active generations whose outcome is not queued
Running(actor, inv, mailbox) ==
  {p \in {[actor |-> actor, state |-> s, gen |-> inv.active[s]] : s \in DOMAIN inv.active} :
     /\ p.gen # 0
     /\ \A i \in 1..Len(mailbox) :
          ~(mailbox[i].state = p.state /\ mailbox[i].gen = p.gen)}

InitDeliverDoor ==
  /\ doorConfig \in DoorWaitingConfigs
  /\ doorCtx \in [locked : {FALSE}, error : {"", OpenStuck, CloseStuck}]
  /\ doorInv \in InvRecords(DoorInvoking, doorConfig)
  /\ doorMailbox \in {<<e>> : e \in DoorOutcomeEvents(doorInv)}
  /\ lockConfig = EntrySet(Unlocked)
  /\ lockCtx = LockInitialContext
  /\ lockInv = NoInvocations(LockInvoking)
  /\ lockMailbox = <<>>

InitDeliverLock ==
  /\ lockConfig \in LockWaitingConfigs
  /\ lockCtx \in [password : IF lockConfig = {Unlocked, UnlockedIdle}
                             THEN {""} ELSE LockPasswords,
                  error : {"", LockJammed, UnlockJammed}]
  /\ lockInv \in InvRecords(LockInvoking, lockConfig)
  /\ lockMailbox \in {<<e>> : e \in LockOutcomeEvents(lockInv)}
  /\ doorConfig = EntrySet(Closed)
  /\ doorCtx = [locked |-> Locked \in lockConfig, error |-> lockCtx.error]
  /\ doorInv = NoInvocations(DoorInvoking)
  /\ doorMailbox = <<>>

InitDeliver ==
  /\ InitDeliverDoor \/ InitDeliverLock
  /\ doorPhase = "waiting"
  /\ lockPhase = "waiting"
  /\ doorCur = NoEvent
  /\ lockCur = NoEvent
  /\ doorPre = NoPre
  /\ lockPre = NoPre
  /\ inflight = Running("door", doorInv, doorMailbox) \cup Running("lock", lockInv, lockMailbox)
  /\ lockSeq = 0
  /\ doorSeen = 0
  /\ sent = MaxEvents
  /\ status = [door |-> "active", lock |-> "active"]
  /\ lockAccepted = lockCtx.password
  /\ stored = NoStored
  /\ storedPending = FALSE
  /\ reloads = 0

SpecDeliver == InitDeliver /\ [][Step]_vars

(***************************************************************************)
(* Properties                                                              *)
(***************************************************************************)
DoorDequeues == doorPhase = "waiting" /\ doorPhase' = "running"
DoorEnds == doorPhase = "running" /\ doorPhase' = "waiting"
LockDequeues == lockPhase = "waiting" /\ lockPhase' = "running"
LockEnds == lockPhase = "running" /\ lockPhase' = "waiting"

Quiescent ==
  /\ doorPhase = "waiting"
  /\ lockPhase = "waiting"
  /\ doorMailbox = <<>>
  /\ lockMailbox = <<>>

\* C1: the door.open guard is evaluated only when door.open is processed in
\* closed.idle, on the cached flag: the door enters closed.opening only in such a
\* step with context.locked false, and from closed.opening the success outcome
\* leads to closed.opened and then open.idle whatever the flag and the lock are
\* by then; so the door can be open while the lock is locked.
C1_OpenGuardOnlyAtTrigger ==
  [][ /\ (ClosedOpening \notin doorConfig /\ ClosedOpening \in doorConfig') =>
           /\ DoorDequeues
           /\ Head(doorMailbox).type = "door.open"
           /\ ClosedIdle \in doorConfig
           /\ ~doorCtx.locked
      /\ ( /\ DoorDequeues
           /\ ClosedOpening \in doorConfig
           /\ Head(doorMailbox).type = "xstate.done.actor"
           /\ Head(doorMailbox).state = ClosedOpening ) =>
           doorConfig' = {Closed, ClosedOpened}
      /\ (ClosedOpened \in doorConfig /\ doorConfig' # doorConfig) =>
           doorConfig' = {Open, OpenIdle}
    ]_vars

C1_Witness_OpenWhileLocked ==
  /\ Quiescent
  /\ inflight = {}
  /\ doorConfig = {Open, OpenIdle}
  /\ lockConfig = {Locked, LockedIdle}

\* C2: the lock leaves locked.idle only by processing a lock.unlock whose
\* password equals context.password, and leaves locked only through the final
\* child reached by the unlock invocation's success; a lock.unlock with another
\* password processed in locked.idle changes neither configuration nor context
\* and starts no invocation, up to the end of its macro-step.
C2_UnlockNeedsPassword ==
  [][ /\ ( /\ LockDequeues
           /\ Head(lockMailbox).type = "lock.unlock"
           /\ LockedIdle \in lockConfig
           /\ Head(lockMailbox).password # lockCtx.password ) =>
           UNCHANGED <<lockConfig, lockCtx, lockInv, inflight>>
      /\ ( /\ lockPhase = "running"
           /\ lockCur.type = "lock.unlock"
           /\ LockedIdle \in lockPre.config
           /\ lockCur.password # lockPre.ctx.password ) =>
           /\ lockConfig' = lockPre.config
           /\ lockCtx' = lockPre.ctx
           /\ UNCHANGED lockInv
           /\ {p \in inflight' : p.actor = "lock"} \subseteq inflight
      /\ (LockedIdle \in lockConfig /\ LockedIdle \notin lockConfig') =>
           /\ LockDequeues
           /\ Head(lockMailbox).type = "lock.unlock"
           /\ Head(lockMailbox).password = lockCtx.password
           /\ lockConfig' = {Locked, LockedUnlocking}
      /\ (LockedUnlocked \notin lockConfig /\ LockedUnlocked \in lockConfig') =>
           LockedUnlocking \in lockConfig
      /\ (Locked \in lockConfig /\ Locked \notin lockConfig') =>
           LockedUnlocked \in lockConfig
    ]_vars

C2_Witness_WrongPassword ==
  /\ lockPhase = "running"
  /\ lockCur.type = "lock.unlock"
  /\ lockCur.password # lockCtx.password
  /\ LockedIdle \in lockPre.config
  /\ lockConfig = {Locked, LockedIdle}
  /\ lockCtx = lockPre.ctx

\* C3: an outcome whose generation is not the one recorded for its state when it
\* is dequeued is discarded: in every step of the macro-step that processes it the
\* actor's configuration, context and generations stay what they were.
StaleHead(mailbox, inv) ==
  /\ mailbox # <<>>
  /\ IsOutcome(Head(mailbox))
  /\ inv.active[Head(mailbox).state] # Head(mailbox).gen

C3_StaleOutcomeDiscarded ==
  [][ /\ (DoorDequeues /\ StaleHead(doorMailbox, doorInv)) =>
           UNCHANGED <<doorConfig, doorCtx, doorInv, inflight, lockMailbox>>
      /\ (doorPhase = "running" /\ IsOutcome(doorCur) /\ ~doorPre.fresh) =>
           /\ doorConfig' = doorPre.config
           /\ doorCtx' = doorPre.ctx
           /\ UNCHANGED doorInv
      /\ (LockDequeues /\ StaleHead(lockMailbox, lockInv)) =>
           UNCHANGED <<lockConfig, lockCtx, lockInv, inflight>>
      /\ (lockPhase = "running" /\ IsOutcome(lockCur) /\ ~lockPre.fresh) =>
           /\ lockConfig' = lockPre.config
           /\ lockCtx' = lockPre.ctx
           /\ UNCHANGED lockInv
    ]_vars

C3_Witness_StaleDelivered ==
  /\ doorPhase = "running"
  /\ IsOutcome(doorCur)
  /\ doorCur.state \in doorConfig
  /\ doorInv.active[doorCur.state] > doorCur.gen
  /\ doorConfig = doorPre.config
  /\ doorCtx = doorPre.ctx

\* C4: door.open processed in closed.idle with context.locked false moves the
\* door to closed.opening and starts exactly one openDoor promise; the
\* macro-step that processes its success ends in open.idle with an empty error.
C4_OpenSucceeds ==
  [][ /\ ( /\ DoorDequeues
           /\ Head(doorMailbox).type = "door.open"
           /\ ClosedIdle \in doorConfig
           /\ ~doorCtx.locked ) =>
           /\ doorConfig' = {Closed, ClosedOpening}
           /\ inflight \subseteq inflight'
           /\ Cardinality(inflight' \ inflight) = 1
           /\ \A p \in inflight' \ inflight :
                p.actor = "door" /\ p.state = ClosedOpening /\ DoorSrc(p.state) = "openDoor"
      /\ ( /\ DoorEnds
           /\ doorCur.type = "xstate.done.actor"
           /\ doorCur.state = ClosedOpening
           /\ ClosedOpening \in doorPre.config ) =>
           /\ doorConfig' = {Open, OpenIdle}
           /\ doorCtx'.error = ""
    ]_vars

C4_Witness_OpenedAfterError ==
  /\ doorPhase = "running"
  /\ doorCur.type = "xstate.done.actor"
  /\ doorCur.state = ClosedOpening
  /\ doorPre.config = {Closed, ClosedOpening}
  /\ doorPre.ctx.error # ""
  /\ doorConfig = {Open, OpenIdle}
  /\ doorCtx.error = ""

\* C5: the macro-step that processes the openDoor failure in closed.opening ends
\* in closed.idle with context.error the failure message and context.locked as
\* before; a closeDoor failure in open.closing ends in open.idle likewise.
C5_FailureReturnsToIdle ==
  [][ /\ ( /\ DoorEnds
           /\ doorCur.type = "xstate.error.actor"
           /\ doorCur.state = ClosedOpening
           /\ ClosedOpening \in doorPre.config ) =>
           /\ doorConfig' = {Closed, ClosedIdle}
           /\ doorCur.error = OpenStuck
           /\ doorCtx'.error = doorCur.error
           /\ doorCtx'.locked = doorPre.ctx.locked
      /\ ( /\ DoorEnds
           /\ doorCur.type = "xstate.error.actor"
           /\ doorCur.state = OpenClosing
           /\ OpenClosing \in doorPre.config ) =>
           /\ doorConfig' = {Open, OpenIdle}
           /\ doorCur.error = CloseStuck
           /\ doorCtx'.error = doorCur.error
           /\ doorCtx'.locked = doorPre.ctx.locked
    ]_vars

C5_Witness_OpenFailedWhileLocked ==
  /\ doorPhase = "running"
  /\ doorCur.type = "xstate.error.actor"
  /\ doorCur.state = ClosedOpening
  /\ doorPre.config = {Closed, ClosedOpening}
  /\ doorPre.ctx.locked
  /\ doorPre.ctx.error # OpenStuck
  /\ doorConfig = {Closed, ClosedIdle}
  /\ doorCtx = [locked |-> TRUE, error |-> OpenStuck]

\* C6: after each macro-step the door's configuration is exactly one of closed
\* and open with exactly one of its children, and the lock's exactly one of
\* unlocked and locked with exactly one of its children.
ValidConfiguration(config, tops, leaves) ==
  /\ config \subseteq tops \cup leaves
  /\ Cardinality(config \cap tops) = 1
  /\ Cardinality(config \cap leaves) = 1
  /\ \A s \in config \cap leaves : <<s[1]>> \in config

C6_ValidConfiguration ==
  /\ doorPhase = "waiting" => ValidConfiguration(doorConfig, DoorTops, DoorLeaves)
  /\ lockPhase = "waiting" => ValidConfiguration(lockConfig, LockTops, LockLeaves)

C6_Witness_BothMoved ==
  /\ doorPhase = "waiting"
  /\ lockPhase = "waiting"
  /\ doorConfig = {Closed, ClosedOpening}
  /\ lockConfig = {Locked, LockedUnlocking}

C8_SnapshotsInOrder ==
  LET snaps == SelectSeq(doorMailbox, IsSnapshotEvent)
      running == IF doorPhase = "running" /\ IsSnapshotEvent(doorCur) THEN 1 ELSE 0
  IN  /\ doorSeen <= lockSeq
      /\ Len(snaps) = lockSeq - doorSeen
      /\ \A i \in 1..Len(snaps) : snaps[i].seq = doorSeen + i
      /\ running = 1 => doorCur.seq = doorSeen
      /\ (snaps # <<>> /\ lockPhase = "waiting") =>
           snaps[Len(snaps)].snapshot = LockSnapshot

C8_Witness_Interleaved ==
  /\ doorSeen >= 1
  /\ lockSeq >= 3
  /\ Len(doorMailbox) >= 3
  /\ doorMailbox[1].type = "xstate.snapshot.lock"
  /\ doorMailbox[2].type = "door.open"
  /\ doorMailbox[3].type = "xstate.snapshot.lock"

\* C9: whenever both mailboxes are empty and no macro-step is running, the
\* door's context.locked is true exactly when the lock is in its locked state.
C9_LockedFlagInSync ==
  Quiescent => (doorCtx.locked <=> (Locked \in lockConfig))

C9_Witness_FlagSet ==
  /\ Quiescent
  /\ doorCtx.locked
  /\ lockConfig = {Locked, LockedIdle}
  /\ doorConfig = {Closed, ClosedIdle}
  /\ doorSeen = lockSeq

\* C10: the door's context.error changes from empty to non-empty only in a
\* macro-step that processes a failure of the door's own openDoor / closeDoor
\* invocation or the snapshot emitted by the lock macro-step in which a lock /
\* unlock invocation failed.
C10_ErrorOnlyFromFailure ==
  [][ (doorCtx.error = "" /\ doorCtx'.error # "") =>
        /\ DoorDequeues
        /\ \/ /\ Head(doorMailbox).type = "xstate.error.actor"
              /\ Head(doorMailbox).state \in DoorInvoking
           \/ /\ Head(doorMailbox).type = "xstate.snapshot.lock"
              /\ Head(doorMailbox).cause = "xstate.error.actor"
    ]_vars

(***************************************************************************)
(* Persistence with progress: the event loop runs every macro-step phase   *)
(* that stays possible and every started promise settles.                  *)
(***************************************************************************)
SpecPersistFair ==
  /\ SpecPersist
  /\ WF_vars(DoorDequeue) /\ WF_vars(DoorCompletion) /\ WF_vars(DoorNotify)
  /\ WF_vars(LockDequeue) /\ WF_vars(LockCompletion) /\ WF_vars(LockNotify)
  /\ WF_vars(SettleDoor) /\ WF_vars(SettleLock)

DoorIdle == doorConfig \cap {ClosedIdle, OpenIdle} # {}
LockIdle == lockConfig \cap {UnlockedIdle, LockedIdle} # {}

\* C11: an actor mounted from a stored snapshot that is in an invoking state
\* (closed.opening / open.closing of the door, unlocked.locking /
\* locked.unlocking of the lock) eventually reaches an idle state.
C11_RehydratedNotStuck ==
  /\ (reloads > 0 /\ doorConfig \cap DoorInvoking # {}) ~> DoorIdle
  /\ (reloads > 0 /\ lockConfig \cap LockInvoking # {}) ~> LockIdle

\* C12: each actor processes the events of its mailbox one at a time in the
\* order they were enqueued: a macro-step starts only while none of the same
\* actor is running and takes the oldest event, the mailbox otherwise only grows
\* at its end, and the actor's configuration and context change only in steps of
\* its own macro-steps.
C12_OneEventAtATime ==
  [][ /\ doorCur' # doorCur =>
           \/ DoorDequeues /\ doorMailbox # <<>> /\ doorCur' = Head(doorMailbox)
           \/ DoorEnds /\ doorCur' = NoEvent
      /\ doorMailbox' # doorMailbox =>
           \/ DoorDequeues /\ doorMailbox' = Tail(doorMailbox)
           \/ /\ Len(doorMailbox') = Len(doorMailbox) + 1
              /\ SubSeq(doorMailbox', 1, Len(doorMailbox)) = doorMailbox
              /\ UNCHANGED <<doorPhase, doorCur>>
      /\ <<doorConfig, doorCtx>>' # <<doorConfig, doorCtx>> =>
           DoorDequeues \/ (doorPhase = "running" /\ doorPhase' = "running")
      /\ lockCur' # lockCur =>
           \/ LockDequeues /\ lockMailbox # <<>> /\ lockCur' = Head(lockMailbox)
           \/ LockEnds /\ lockCur' = NoEvent
      /\ lockMailbox' # lockMailbox =>
           \/ LockDequeues /\ lockMailbox' = Tail(lockMailbox)
           \/ /\ Len(lockMailbox') = Len(lockMailbox) + 1
              /\ SubSeq(lockMailbox', 1, Len(lockMailbox)) = lockMailbox
              /\ UNCHANGED <<lockPhase, lockCur>>
      /\ <<lockConfig, lockCtx>>' # <<lockConfig, lockCtx>> =>
           LockDequeues \/ (lockPhase = "running" /\ lockPhase' = "running")
    ]_vars

C12_Witness_QueuedBehindRunning ==
  /\ doorPhase = "running"
  /\ doorCur.type = "door.lock"
  /\ doorMailbox # <<>>
  /\ Head(doorMailbox).type = "door.open"
  /\ lockPhase = "running"
  /\ lockCur.type = "lock.lock"

\* the invocations of state s of an actor that are in flight: promises still
\* running and outcomes not yet processed
Live(actor, s, mailbox) ==
  Cardinality({p \in inflight : p.actor = actor /\ p.state = s})
  + Len(SelectSeq(mailbox, LAMBDA e : IsOutcome(e) /\ e.state = s))

ExactlyWhenInvoking(actor, invoking, config, inv, mailbox) ==
  \A s \in invoking :
    IF s \in config
    THEN Live(actor, s, mailbox) = 1 /\ inv.active[s] # 0 /\ inv.active[s] = inv.issued[s]
    ELSE Live(actor, s, mailbox) = 0 /\ inv.active[s] = 0

\* C13: an actor has an invocation in flight exactly when its active leaf is an
\* invoking state, and then exactly one; each entry of an invoking state starts
\* a new invocation whose generation is greater than every generation issued
\* for that state before.
C13_OneInvocationPerActivation ==
  /\ [](/\ ExactlyWhenInvoking("door", DoorInvoking, doorConfig, doorInv, doorMailbox)
        /\ ExactlyWhenInvoking("lock", LockInvoking, lockConfig, lockInv, lockMailbox))
  /\ [][ /\ \A s \in DoorInvoking : (s \notin doorConfig /\ s \in doorConfig') =>
              /\ doorInv'.active[s] > doorInv.issued[s]
              /\ [actor |-> "door", state |-> s, gen |-> doorInv'.active[s]] \in inflight'
         /\ \A s \in LockInvoking : (s \notin lockConfig /\ s \in lockConfig') =>
              /\ lockInv'.active[s] > lockInv.issued[s]
              /\ [actor |-> "lock", state |-> s, gen |-> lockInv'.active[s]] \in inflight'
       ]_vars

\* C14: in every reachable state the status of the door actor and of the lock
\* actor is running ("active"): no invocation failure and no sequence of events
\* puts either actor into status error or done.
C14_AlwaysRunning ==
  /\ status.door = "active"
  /\ status.lock = "active"

C14_Witness_BothFailed ==
  /\ doorPhase = "running"
  /\ doorCur.type = "xstate.error.actor"
  /\ doorCur.state = ClosedOpening
  /\ doorCtx.error = OpenStuck
  /\ lockCtx.error = LockJammed
  /\ C14_AlwaysRunning

\* C15: at the end of every macro-step the active leaf is none of the final
\* states closed.opened, open.closed, unlocked.locked, locked.unlocked: while
\* such a final child is active the actor is inside a macro-step, and its next
\* move is the parent's onDone transition in that same macro-step.
C15_FinalChildIsTransient ==
  /\ [](/\ doorPhase = "waiting" => doorConfig \cap {ClosedOpened, OpenClosed} = {}
        /\ lockPhase = "waiting" => lockConfig \cap {UnlockedLocked, LockedUnlocked} = {})
  /\ [][ /\ doorConfig \cap {ClosedOpened, OpenClosed} # {} =>
              /\ doorPhase = "running" /\ doorPhase' = "running"
              /\ doorCur' = doorCur
              /\ \/ doorConfig' = doorConfig
                 \/ ClosedOpened \in doorConfig /\ doorConfig' = {Open, OpenIdle}
                 \/ OpenClosed \in doorConfig /\ doorConfig' = {Closed, ClosedIdle}
         /\ lockConfig \cap {UnlockedLocked, LockedUnlocked} # {} =>
              /\ lockPhase = "running" /\ lockPhase' = "running"
              /\ lockCur' = lockCur
              /\ \/ lockConfig' = lockConfig
                 \/ UnlockedLocked \in lockConfig /\ lockConfig' = {Locked, LockedIdle}
                 \/ LockedUnlocked \in lockConfig /\ lockConfig' = {Unlocked, UnlockedIdle}
       ]_vars

C15_Witness_FinalChildren ==
  /\ ClosedOpened \in doorConfig
  /\ LockedUnlocked \in lockConfig

\* C16: the lock macro-step that processes the success of the unlock invocation
\* ends in unlocked.idle with context.password = "" and context.error = "", and
\* the one that processes the success of the lock invocation ends in locked.idle
\* with context.error = "" (the password is kept).
C16_LockSuccessClears ==
  [][ (LockEnds /\ lockCur.type = "xstate.done.actor") =>
        /\ lockCur.state = LockedUnlocking /\ LockedUnlocking \in lockPre.config =>
             /\ lockConfig' = {Unlocked, UnlockedIdle}
             /\ lockCtx' = [password |-> "", error |-> ""]
        /\ lockCur.state = UnlockedLocking /\ UnlockedLocking \in lockPre.config =>
             /\ lockConfig' = {Locked, LockedIdle}
             /\ lockCtx' = [password |-> lockPre.ctx.password, error |-> ""]
    ]_vars

C16_Witness_UnlockedAfterError ==
  /\ lockPhase = "running"
  /\ lockCur.type = "xstate.done.actor"
  /\ lockCur.state = LockedUnlocking
  /\ lockPre.ctx = [password |-> "1234", error |-> UnlockJammed]
  /\ lockConfig = {Unlocked, UnlockedIdle}
  /\ lockCtx = [password |-> "", error |-> ""]

\* C17: the door enters closed.opening exactly in the steps that take door.open
\* from the mailbox in closed.idle while context.locked is false; a door.open
\* processed in closed.idle while context.locked is true leaves the door's
\* configuration and context unchanged through the whole macro-step and starts
\* no invocation.
C17_OpenOnlyWhenUnlocked ==
  [][ /\ (ClosedOpening \notin doorConfig /\ ClosedOpening \in doorConfig') <=>
           /\ DoorDequeues
           /\ Head(doorMailbox).type = "door.open"
           /\ ClosedIdle \in doorConfig
           /\ doorCtx.locked = FALSE
      /\ ( /\ DoorDequeues
           /\ Head(doorMailbox).type = "door.open"
           /\ ClosedIdle \in doorConfig
           /\ doorCtx.locked = TRUE ) =>
           UNCHANGED <<doorConfig, doorCtx, doorInv, inflight, lockMailbox>>
      /\ ( /\ doorPhase = "running"
           /\ doorCur.type = "door.open"
           /\ ClosedIdle \in doorPre.config
           /\ doorPre.ctx.locked = TRUE ) =>
           /\ doorConfig' = doorPre.config
           /\ doorCtx' = doorPre.ctx
           /\ {p \in inflight' : p.actor = "door"} = {}
    ]_vars

C17_Witness_OpenRefused ==
  /\ doorPhase = "running"
  /\ doorCur.type = "door.open"
  /\ doorPre.config = {Closed, ClosedIdle}
  /\ doorPre.ctx.locked = TRUE
  /\ doorConfig = {Closed, ClosedIdle}
  /\ lockConfig = {Locked, LockedIdle}

\* the user events a door configuration does not declare
Undeclared(e, config) ==
  \/ /\ e.type \in {"door.open", "door.close", "door.lock", "door.unlock"}
     /\ (ClosedOpening \in config \/ OpenClosing \in config)
  \/ /\ e.type \in {"door.open", "door.lock", "door.unlock"}
     /\ OpenIdle \in config
  \/ /\ e.type = "door.close"
     /\ ClosedIdle \in config

\* C18: a door.open, door.close, door.lock or door.unlock processed in a
\* configuration whose active leaf does not declare it (any of them in
\* closed.opening or open.closing; door.open, door.lock, door.unlock in
\* open.idle; door.close in closed.idle) leaves the door's configuration and
\* context unchanged, sends nothing to the lock, and neither cancels nor
\* restarts an invocation in flight.
C18_UndeclaredEventIgnored ==
  [][ /\ (DoorDequeues /\ Undeclared(Head(doorMailbox), doorConfig)) =>
           /\ UNCHANGED <<doorConfig, doorCtx, doorInv, inflight, lockMailbox>>
           /\ doorMailbox' = Tail(doorMailbox)
      /\ (DoorEnds /\ Undeclared(doorCur, doorPre.config)) =>
           /\ doorConfig' = doorPre.config
           /\ doorCtx' = doorPre.ctx
           /\ UNCHANGED <<doorInv, inflight, lockMailbox>>
    ]_vars

C18_Witness_LockWhileOpening ==
  /\ doorPhase = "running"
  /\ doorCur.type = "door.lock"
  /\ doorPre.config = {Closed, ClosedOpening}
  /\ doorConfig = {Closed, ClosedOpening}
  /\ [actor |-> "door", state |-> ClosedOpening, gen |-> 1] \in inflight
  /\ lockMailbox = <<>>
  /\ lockConfig = {Unlocked, UnlockedIdle}

\* C19: xstate.snapshot.lock is handled by the root transition in every door
\* configuration: the macro-step sets context.locked and context.error from the
\* snapshot and leaves the configuration unchanged, without exiting the active
\* state and without cancelling or restarting an invocation in flight.
C19_SnapshotHandledAtRoot ==
  [][ /\ (DoorDequeues /\ Head(doorMailbox).type = "xstate.snapshot.lock") =>
           LET snapshot == Head(doorMailbox).snapshot
           IN  /\ doorCtx' = [locked |-> snapshot.value.top = "locked",
                              error |-> snapshot.context.error]
               /\ UNCHANGED <<doorConfig, doorInv, inflight, lockMailbox>>
      /\ (DoorEnds /\ doorCur.type = "xstate.snapshot.lock") =>
           /\ doorConfig' = doorPre.config
           /\ doorCtx' = [locked |-> doorCur.snapshot.value.top = "locked",
                          error |-> doorCur.snapshot.context.error]
           /\ UNCHANGED <<doorInv, inflight>>
    ]_vars

C19_Witness_SnapshotWhileOpening ==
  /\ doorPhase = "running"
  /\ doorCur.type = "xstate.snapshot.lock"
  /\ doorPre.config = {Closed, ClosedOpening}
  /\ doorPre.ctx = [locked |-> FALSE, error |-> ""]
  /\ doorCtx = [locked |-> TRUE, error |-> ""]
  /\ doorConfig = {Closed, ClosedOpening}
  /\ [actor |-> "door", state |-> ClosedOpening, gen |-> 1] \in inflight

IsLockRequest(e) == e.type \in {"lock.lock", "lock.unlock"}

\* C20: each door.lock (door.unlock) processed in closed.idle puts exactly one
\* lock.lock (lock.unlock) with the same password at the end of the lock's
\* mailbox and leaves the door's own configuration and context unchanged; no
\* other step adds a request, and the lock's mailbox is only extended at its end
\* and consumed at its front, so the requests reach the lock in the order the
\* door sent them.
C20_ForwardedToLock ==
  [][ /\ (DoorDequeues /\ Head(doorMailbox).type = "door.lock" /\ ClosedIdle \in doorConfig) =>
           /\ lockMailbox' = Append(lockMailbox,
                                    UserEvent("lock.lock", Head(doorMailbox).password))
           /\ UNCHANGED <<doorConfig, doorCtx>>
      /\ (DoorDequeues /\ Head(doorMailbox).type = "door.unlock" /\ ClosedIdle \in doorConfig) =>
           /\ lockMailbox' = Append(lockMailbox,
                                    UserEvent("lock.unlock", Head(doorMailbox).password))
           /\ UNCHANGED <<doorConfig, doorCtx>>
      /\ ( /\ DoorEnds
           /\ doorCur.type \in {"door.lock", "door.unlock"}
           /\ ClosedIdle \in doorPre.config ) =>
           /\ doorConfig' = doorPre.config
           /\ doorCtx' = doorPre.ctx
      /\ Len(SelectSeq(lockMailbox', IsLockRequest)) > Len(SelectSeq(lockMailbox, IsLockRequest)) =>
           /\ DoorDequeues
           /\ Head(doorMailbox).type \in {"door.lock", "door.unlock"}
           /\ ClosedIdle \in doorConfig
      /\ lockMailbox' # lockMailbox =>
           \/ LockDequeues /\ lockCur' = Head(lockMailbox) /\ lockMailbox' = Tail(lockMailbox)
           \/ /\ Len(lockMailbox') = Len(lockMailbox) + 1
              /\ SubSeq(lockMailbox', 1, Len(lockMailbox)) = lockMailbox
    ]_vars

C20_Witness_TwoRequestsQueued ==
  /\ doorPhase = "running"
  /\ doorCur = UserEvent("door.unlock", "4321")
  /\ doorConfig = {Closed, ClosedIdle}
  /\ lockMailbox = <<UserEvent("lock.lock", "1234"), UserEvent("lock.unlock", "4321")>>

\* the session without reloads, with the same progress conditions
SpecFair ==
  /\ Spec
  /\ WF_vars(DoorDequeue) /\ WF_vars(DoorCompletion) /\ WF_vars(DoorNotify)
  /\ WF_vars(LockDequeue) /\ WF_vars(LockCompletion) /\ WF_vars(LockNotify)
  /\ WF_vars(SettleDoor) /\ WF_vars(SettleLock)

DoorInvokingNow == doorConfig \cap DoorInvoking # {}
LockInvokingNow == lockConfig \cap LockInvoking # {}

\* C21: when every started invocation delivers its outcome and every non-empty
\* mailbox is processed, a door in closed.opening or open.closing eventually
\* reaches closed.idle or open.idle, and a lock in unlocked.locking or
\* locked.unlocking eventually reaches unlocked.idle or locked.idle.
C21_InvokingReachesIdle ==
  /\ DoorInvokingNow ~> DoorIdle
  /\ LockInvokingNow ~> LockIdle

\* the promises of an actor that are running
Promises(actor) == {p \in inflight : p.actor = actor}

\* C25: every invoking state (closed.opening, open.closing, unlocked.locking,
\* locked.unlocking) is exited only by the step that takes that invocation's own
\* outcome from the mailbox; so no state is exited while its promise is still
\* running (nothing is cancelled), and every outcome taken from the door's or
\* the lock's mailbox carries the current generation of its state.
C25_ExitedOnlyByOwnOutcome ==
  [][ /\ \A s \in DoorInvoking : (s \in doorConfig /\ s \notin doorConfig') =>
           /\ DoorDequeues
           /\ IsOutcome(Head(doorMailbox))
           /\ Head(doorMailbox).state = s
           /\ Head(doorMailbox).gen = doorInv.active[s]
           /\ \A p \in Promises("door") : p.state # s
      /\ \A s \in LockInvoking : (s \in lockConfig /\ s \notin lockConfig') =>
           /\ LockDequeues
           /\ IsOutcome(Head(lockMailbox))
           /\ Head(lockMailbox).state = s
           /\ Head(lockMailbox).gen = lockInv.active[s]
           /\ \A p \in Promises("lock") : p.state # s
      /\ (DoorDequeues /\ IsOutcome(Head(doorMailbox))) =>
           /\ doorInv.active[Head(doorMailbox).state] # 0
           /\ Head(doorMailbox).gen = doorInv.active[Head(doorMailbox).state]
           /\ Head(doorMailbox).state \notin doorConfig'
      /\ (LockDequeues /\ IsOutcome(Head(lockMailbox))) =>
           /\ lockInv.active[Head(lockMailbox).state] # 0
           /\ Head(lockMailbox).gen = lockInv.active[Head(lockMailbox).state]
           /\ Head(lockMailbox).state \notin lockConfig'
      /\ Promises("door") \ inflight' # {} =>
           /\ Len(doorMailbox') = Len(doorMailbox) + 1
           /\ IsOutcome(doorMailbox'[Len(doorMailbox')])
      /\ Promises("lock") \ inflight' # {} =>
           /\ Len(lockMailbox') = Len(lockMailbox) + 1
           /\ IsOutcome(lockMailbox'[Len(lockMailbox')])
    ]_vars

C25_Witness_SecondGeneration ==
  /\ doorPhase = "running"
  /\ doorCur = DoneEvent(ClosedOpening, 2)
  /\ doorPre.config = {Closed, ClosedOpening}
  /\ doorPre.fresh
  /\ ClosedOpening \notin doorConfig
  /\ UnlockedLocking \in lockConfig

\* C26: whenever the lock is in unlocked.locking or in a locked.* state,
\* context.password is the password of the lock.lock accepted last; the
\* password is written only by a lock.lock processed in unlocked.idle and by the
\* clearing on a successful unlock, so failures and rejected or undeclared
\* events leave it unchanged.
C26_PasswordIsLastAccepted ==
  /\ []((UnlockedLocking \in lockConfig \/ Locked \in lockConfig) =>
          lockCtx.password = lockAccepted)
  /\ [][ lockCtx'.password # lockCtx.password =>
           \/ /\ LockDequeues
              /\ Head(lockMailbox).type = "lock.lock"
              /\ UnlockedIdle \in lockConfig
              /\ lockCtx'.password = Head(lockMailbox).password
           \/ /\ lockPhase = "running"
              /\ lockCur = DoneEvent(LockedUnlocking, lockCur.gen)
              /\ LockedUnlocked \in lockConfig
              /\ Unlocked \in lockConfig'
              /\ lockCtx'.password = ""
       ]_vars

C26_Witness_KeptAfterFailures ==
  /\ lockPhase = "running"
  /\ lockCur.type = "lock.unlock"
  /\ lockCur.password = "4321"
  /\ lockConfig = {Locked, LockedIdle}
  /\ lockCtx = [password |-> "1234", error |-> UnlockJammed]
  /\ lockAccepted = "1234"

(***************************************************************************)
(* The sendParent variant (unnamed/part_000, second module): the door      *)
(* invokes the lock machine as "lockManager", the lock reports with        *)
(* sendParent, all states are flat. The same variables hold its state.     *)
(***************************************************************************)
LockStuck == "The lock is stuck."
DoorStuck == "The door is stuck."

Opening == <<"opening">>
Closing == <<"closing">>
Locking == <<"locking">>
Unlocking == <<"unlocking">>
Star == <<"*">>

spDoorInvoking == {Opening, Closing}
spLockInvoking == {Locking, Unlocking}
spDoorSrc(s) == IF s = Opening THEN "openDoor" ELSE "closeDoor"
spLockSrc(s) == IF s = Locking THEN "lock" ELSE "unlock"

\* the promise actors of the variant
spOutcomes(src) ==
  IF src \in {"lock", "unlock"} THEN {Resolved, Rejected(LockStuck)}
  ELSE {Resolved, Rejected(DoorStuck)}

\* events the lock sends to its parent
LockLockedEvent == Event("lock.locked", "", <<>>, 0, "", NoSnapshot, 0, "")
LockUnlockedEvent == Event("lock.unlocked", "", <<>>, 0, "", NoSnapshot, 0, "")
LockErrorEvent(msg) == Event("lock.error", "", <<>>, 0, msg, NoSnapshot, 0, "")

\* lockMachine of the variant
spIsCorrectPassword(ctx, e) == e.password = ctx.password
spLockUnlock(config, ctx, e) ==
  IF spIsCorrectPassword(ctx, e) THEN Result({Unlocking}, ctx, <<>>)
  ELSE Result(config, ctx, <<>>)
spUnlockingDone(config, ctx, e) ==
  Result({Unlocked}, [ctx EXCEPT !.password = "", !.error = ""], <<LockUnlockedEvent>>)
spUnlockingError(config, ctx, e) ==
  Result({Locked}, [ctx EXCEPT !.error = e.error], <<LockErrorEvent(e.error)>>)
spLockLockAssignsPassword(config, ctx, e) ==
  Result({Locking}, [ctx EXCEPT !.password = e.password], <<>>)
spLockLock(config, ctx, e) ==
  Result({Locking}, [ctx EXCEPT !.userPassword = e.password], <<>>)
spLockingDone(config, ctx, e) ==
  Result({Locked},
         [password |-> ctx.userPassword, userPassword |-> "", error |-> ""],
         <<LockLockedEvent>>)
spLockingError(config, ctx, e) ==
  Result({Unlocked}, [ctx EXCEPT !.error = e.error], <<LockErrorEvent(e.error)>>)

spLockTransition(config, ctx, inv, e) ==
  CASE e.type = "lock.unlock" /\ Locked \in config -> spLockUnlock(config, ctx, e)
    [] e.type = "xstate.done.actor" /\ e.state = Unlocking
         /\ Unlocking \in config /\ Accepted(inv, e) -> spUnlockingDone(config, ctx, e)
    [] e.type = "xstate.error.actor" /\ e.state = Unlocking
         /\ Unlocking \in config /\ Accepted(inv, e) -> spUnlockingError(config, ctx, e)
    [] e.type = "lock.lock" /\ Unlocked \in config -> spLockLock(config, ctx, e)
    [] e.type = "xstate.done.actor" /\ e.state = Locking
         /\ Locking \in config /\ Accepted(inv, e) -> spLockingDone(config, ctx, e)
    [] e.type = "xstate.error.actor" /\ e.state = Locking
         /\ Locking \in config /\ Accepted(inv, e) -> spLockingError(config, ctx, e)
    [] OTHER -> Result(config, ctx, <<>>)

\* doorMachine of the variant
isUnlocked(ctx) == ~ctx.locked
spDoorOpen(config, ctx, e) ==
  IF isUnlocked(ctx) THEN Result({Opening}, ctx, <<>>) ELSE Result(config, ctx, <<>>)
spOpeningDone(config, ctx, e) == Result({Open}, [ctx EXCEPT !.error = ""], <<>>)
spOpeningError(config, ctx, e) == Result({Closed}, [ctx EXCEPT !.error = e.error], <<>>)
spDoorClose(config, ctx, e) == Result({Closing}, ctx, <<>>)
spClosingDone(config, ctx, e) == Result({Closed}, [ctx EXCEPT !.error = ""], <<>>)
spClosingError(config, ctx, e) == Result({Open}, [ctx EXCEPT !.error = e.error], <<>>)

\* "*" is a key of states: a fifth state, which no transition targets
spDoorTransition(config, ctx, inv, e) ==
  CASE e.type = "lock.unlocked" /\ Closed \in config ->
         Result(config, [ctx EXCEPT !.locked = FALSE], <<>>)
    [] e.type = "lock.locked" /\ Closed \in config ->
         Result(config, [ctx EXCEPT !.locked = TRUE], <<>>)
    [] e.type = "door.lock" /\ Closed \in config ->
         Result(config, ctx, <<UserEvent("lock.lock", e.password)>>)
    [] e.type = "door.unlock" /\ Closed \in config ->
         Result(config, ctx, <<UserEvent("lock.unlock", e.password)>>)
    [] e.type = "door.open" /\ Closed \in config -> spDoorOpen(config, ctx, e)
    [] e.type = "xstate.done.actor" /\ e.state = Opening
         /\ Opening \in config /\ Accepted(inv, e) -> spOpeningDone(config, ctx, e)
    [] e.type = "xstate.error.actor" /\ e.state = Opening
         /\ Opening \in config /\ Accepted(inv, e) -> spOpeningError(config, ctx, e)
    [] e.type = "door.close" /\ Open \in config -> spDoorClose(config, ctx, e)
    [] e.type = "xstate.done.actor" /\ e.state = Closing
         /\ Closing \in config /\ Accepted(inv, e) -> spClosingDone(config, ctx, e)
    [] e.type = "xstate.error.actor" /\ e.state = Closing
         /\ Closing \in config /\ Accepted(inv, e) -> spClosingError(config, ctx, e)
    [] e.type = "lock.error" /\ Star \in config ->
         Result(config, [ctx EXCEPT !.error = e.error], <<>>)
    [] OTHER -> Result(config, ctx, <<>>)

spInit ==
  /\ doorConfig = {Closed}
  /\ doorCtx = [locked |-> FALSE, error |-> ""]
  /\ doorMailbox = <<>>
  /\ doorPhase = "waiting"
  /\ doorCur = NoEvent
  /\ doorPre = NoPre
  /\ doorInv = NoInvocations(spDoorInvoking)
  /\ lockConfig = {Unlocked}
  /\ lockCtx = [password |-> "", error |-> "", userPassword |-> ""]
  /\ lockMailbox = <<>>
  /\ lockPhase = "waiting"
  /\ lockCur = NoEvent
  /\ lockPre = NoPre
  /\ lockInv = NoInvocations(spLockInvoking)
  /\ inflight = {}
  /\ lockSeq = 0
  /\ doorSeen = 0
  /\ status = [door |-> "active", lock |-> "active"]
  /\ lockAccepted = ""
  /\ sent = 0
  /\ stored = NoStored
  /\ storedPending = FALSE
  /\ reloads = 0

spDoorDequeue ==
  /\ doorPhase = "waiting"
  /\ doorMailbox # <<>>
  /\ LET e == Head(doorMailbox)
         r == spDoorTransition(doorConfig, doorCtx, doorInv, e)
     IN  /\ doorConfig' = r.config
         /\ doorCtx' = r.ctx
         /\ lockMailbox' = lockMailbox \o r.sends
         /\ doorInv' = Generations(doorInv, doorConfig, r.config)
         /\ inflight' = inflight \cup Started("door", doorInv, doorConfig, r.config)
         /\ doorCur' = e
         /\ doorPre' = [config |-> doorConfig, ctx |-> doorCtx,
                        fresh |-> Matches(doorInv, e)]
  /\ doorMailbox' = Tail(doorMailbox)
  /\ doorPhase' = "running"
  /\ UNCHANGED <<lockConfig, lockCtx, lockPhase, lockCur, lockPre, lockInv, lockAccepted>>
  /\ UNCHANGED <<sent, lockSeq, doorSeen, persistVars, status>>

\* sendParent puts the event into the door's mailbox
spLockDequeue ==
  /\ lockPhase = "waiting"
  /\ lockMailbox # <<>>
  /\ LET e == Head(lockMailbox)
         r == spLockTransition(lockConfig, lockCtx, lockInv, e)
     IN  /\ lockConfig' = r.config
         /\ lockCtx' = r.ctx
         /\ doorMailbox' = doorMailbox \o r.sends
         /\ lockInv' = Generations(lockInv, lockConfig, r.config)
         /\ inflight' = inflight \cup Started("lock", lockInv, lockConfig, r.config)
         /\ lockCur' = e
         /\ lockPre' = [config |-> lockConfig, ctx |-> lockCtx,
                        fresh |-> Matches(lockInv, e)]
         /\ lockAccepted' = IF e.type = "lock.lock" /\ Unlocked \in lockConfig
                             THEN e.password ELSE lockAccepted
  /\ lockMailbox' = Tail(lockMailbox)
  /\ lockPhase' = "running"
  /\ UNCHANGED <<doorConfig, doorCtx, doorPhase, doorCur, doorPre, doorInv>>
  /\ UNCHANGED <<sent, lockSeq, doorSeen, persistVars, status>>

\* the lock is invoked without syncSnapshot: the end of its macro-step sends nothing
spLockNotify ==
  /\ lockPhase = "running"
  /\ lockPhase' = "waiting"
  /\ lockCur' = NoEvent
  /\ lockPre' = NoPre
  /\ lockSeq' = lockSeq + 1
  /\ UNCHANGED <<lockConfig, lockCtx, lockMailbox, lockInv, lockAccepted>>
  /\ UNCHANGED <<doorVars, inflight, sent, doorSeen, persistVars, status>>

spSettleDoor ==
  \E p \in inflight : \E o \in spOutcomes(spDoorSrc(p.state)) :
    /\ p.actor = "door"
    /\ inflight' = inflight \ {p}
    /\ doorMailbox' = Append(doorMailbox, OutcomeEvent(p, o))
    /\ UNCHANGED <<doorConfig, doorCtx, doorPhase, doorCur, doorPre, doorInv>>
    /\ UNCHANGED <<lockVars, sent, lockSeq, doorSeen, persistVars, status>>

spSettleLock ==
  \E p \in inflight : \E o \in spOutcomes(spLockSrc(p.state)) :
    /\ p.actor = "lock"
    /\ inflight' = inflight \ {p}
    /\ lockMailbox' = Append(lockMailbox, OutcomeEvent(p, o))
    /\ UNCHANGED <<lockConfig, lockCtx, lockPhase, lockCur, lockPre, lockInv, lockAccepted>>
    /\ UNCHANGED <<doorVars, sent, lockSeq, doorSeen, persistVars, status>>

spStep ==
  \/ spDoorDequeue
  \/ DoorNotify
  \/ spLockDequeue
  \/ spLockNotify
  \/ spSettleDoor
  \/ spSettleLock

spNext ==
  \/ SendOpen
  \/ SendClose
  \/ SendLock
  \/ SendUnlock
  \/ spStep

SpecSendParent == spInit /\ [][spNext]_vars

\* C22: in the sendParent variant, when the lock's lock or unlock invocation
\* fails, the lock.error event sent to the parent is handled by the door: the
\* macro-step that processes it sets the door's context.error to the message
\* the event carries.
C22_LockErrorReachesDoor ==
  [][ (DoorDequeues /\ Head(doorMailbox).type = "lock.error") =>
        doorCtx'.error = Head(doorMailbox).error
    ]_vars

\* C23: in the sendParent variant no lock.locked / lock.unlocked notification is
\* lost: whenever all mailboxes are empty, no macro-step is running and no
\* invocation is in flight, the door's context.locked is true exactly when the
\* lock is in its locked state.
C23_NotificationsNotLost ==
  (Quiescent /\ inflight = {}) => (doorCtx.locked <=> (Locked \in lockConfig))

\* C27: in the sendParent variant's lock machine context.password is "" in every
\* state where the lock is in unlocked or locking: the candidate password is
\* staged in userPassword and copied to password only when the lock invocation
\* succeeds, so a failed locking attempt leaves password unchanged.
C27_PasswordStagedUntilLocked ==
  /\ []((Unlocked \in lockConfig \/ Locking \in lockConfig) => lockCtx.password = "")
  /\ [][ /\ (LockDequeues /\ Head(lockMailbox).type = "lock.lock" /\ Unlocked \in lockConfig) =>
              /\ lockCtx'.userPassword = Head(lockMailbox).password
              /\ lockCtx'.password = lockCtx.password
         /\ (LockDequeues /\ Head(lockMailbox) \in {ErrorEvent(Locking, g, LockStuck) : g \in 1..MaxEvents}) =>
              /\ lockConfig' = {Unlocked}
              /\ lockCtx'.password = lockCtx.password
         /\ (lockCtx.password = "" /\ lockCtx'.password # "") =>
              /\ LockDequeues
              /\ Head(lockMailbox).type = "xstate.done.actor"
              /\ Head(lockMailbox).state = Locking
              /\ lockCtx'.password = lockCtx.userPassword
              /\ lockConfig' = {Locked}
       ]_vars

C27_Witness_FailedLocking ==
  /\ lockPhase = "running"
  /\ lockCur.type = "xstate.error.actor"
  /\ lockCur.state = Locking
  /\ lockConfig = {Unlocked}
  /\ lockCtx = [password |-> "", error |-> LockStuck, userPassword |-> "1234"]

(***************************************************************************)
(* The live-snapshot variant (unnamed/part_001): no invocations, the lock  *)
(* passes through the final children unlocked.locking / locked.unlocking,  *)
(* the door is flat and its door.open guard reads the lock child's         *)
(* snapshot. The same variables hold its state.                            *)
(***************************************************************************)
lvLockFinal == {UnlockedLocking, LockedUnlocking}

\* lockMachine of the variant
lvLockLock(config, ctx, e) ==
  Result(Goto(config, UnlockedIdle, UnlockedLocking), assignPassword(ctx, e), <<>>)
lvLockUnlock(config, ctx, e) ==
  IF isCorrectPassword(ctx, e)
  THEN Result(Goto(config, LockedIdle, LockedUnlocking), clearPassword(ctx), <<>>)
  ELSE Result(config, ctx, <<>>)
lvUnlockedOnDone(config, ctx) == Result(Goto(config, Unlocked, Locked), ctx, <<>>)
lvLockedOnDone(config, ctx) ==
  Result(Goto(config, Locked, Unlocked), clearPassword(ctx), <<>>)

lvLockTransition(config, ctx, e) ==
  CASE e.type = "lock.lock" /\ UnlockedIdle \in config -> lvLockLock(config, ctx, e)
    [] e.type = "lock.unlock" /\ LockedIdle \in config -> lvLockUnlock(config, ctx, e)
    [] OTHER -> Result(config, ctx, <<>>)

lvLockOnDone(config, ctx) ==
  IF UnlockedLocking \in config THEN lvUnlockedOnDone(config, ctx)
  ELSE lvLockedOnDone(config, ctx)

\* lockRef.getSnapshot(): the snapshot the lock published at the end of its last
\* macro-step
lvGetSnapshot ==
  IF lockPhase = "running"
  THEN [value |-> ValueOf(lockPre.config), context |-> lockPre.ctx]
  ELSE [value |-> ValueOf(lockConfig), context |-> lockCtx]

\* doorMachine of the variant
lvDoorOpenGuard(ctx) == lvGetSnapshot.value.top = "unlocked"
lvDoorOpen(config, ctx, e) ==
  IF lvDoorOpenGuard(ctx) THEN Result({Open}, ctx, <<>>) ELSE Result(config, ctx, <<>>)
lvDoorClose(config, ctx, e) == Result({Closed}, ctx, <<>>)

lvDoorTransition(config, ctx, e) ==
  CASE e.type = "door.open" /\ Closed \in config -> lvDoorOpen(config, ctx, e)
    [] e.type = "door.lock" /\ Closed \in config ->
         Result(config, ctx, <<UserEvent("lock.lock", e.password)>>)
    [] e.type = "door.unlock" /\ Closed \in config ->
         Result(config, ctx, <<UserEvent("lock.unlock", e.password)>>)
    [] e.type = "door.close" /\ Open \in config -> lvDoorClose(config, ctx, e)
    [] OTHER -> Result(config, ctx, <<>>)

lvInit ==
  /\ doorConfig = {Closed}
  /\ doorCtx = [lockRef |-> [id |-> "lock"]]
  /\ doorMailbox = <<>>
  /\ doorPhase = "waiting"
  /\ doorCur = NoEvent
  /\ doorPre = NoPre
  /\ doorInv = NoInvocations({})
  /\ lockConfig = EntrySet(Unlocked)
  /\ lockCtx = LockInitialContext
  /\ lockMailbox = <<>>
  /\ lockPhase = "waiting"
  /\ lockCur = NoEvent
  /\ lockPre = NoPre
  /\ lockInv = NoInvocations({})
  /\ inflight = {}
  /\ lockSeq = 0
  /\ doorSeen = 0
  /\ status = [door |-> "active", lock |-> "active"]
  /\ lockAccepted = ""
  /\ sent = 0
  /\ stored = NoStored
  /\ storedPending = FALSE
  /\ reloads = 0

lvDoorDequeue ==
  /\ doorPhase = "waiting"
  /\ doorMailbox # <<>>
  /\ LET e == Head(doorMailbox)
         r == lvDoorTransition(doorConfig, doorCtx, e)
     IN  /\ doorConfig' = r.config
         /\ doorCtx' = r.ctx
         /\ lockMailbox' = lockMailbox \o r.sends
         /\ doorCur' = e
         /\ doorPre' = [config |-> doorConfig, ctx |-> doorCtx, fresh |-> FALSE]
         /\ doorSeen' = IF e.type = "xstate.snapshot.lock" THEN doorSeen + 1 ELSE doorSeen
  /\ doorMailbox' = Tail(doorMailbox)
  /\ doorPhase' = "running"
  /\ UNCHANGED <<lockConfig, lockCtx, lockPhase, lockCur, lockPre, lockInv, lockAccepted>>
  /\ UNCHANGED <<doorInv, inflight, sent, lockSeq, persistVars, status>>

lvLockDequeue ==
  /\ lockPhase = "waiting"
  /\ lockMailbox # <<>>
  /\ LET e == Head(lockMailbox)
         r == lvLockTransition(lockConfig, lockCtx, e)
     IN  /\ lockConfig' = r.config
         /\ lockCtx' = r.ctx
         /\ lockCur' = e
         /\ lockPre' = [config |-> lockConfig, ctx |-> lockCtx, fresh |-> FALSE]
         /\ lockAccepted' = IF e.type = "lock.lock" /\ UnlockedIdle \in lockConfig
                             THEN e.password ELSE lockAccepted
  /\ lockMailbox' = Tail(lockMailbox)
  /\ lockPhase' = "running"
  /\ UNCHANGED <<doorVars, lockInv, inflight, sent, lockSeq, doorSeen, persistVars, status>>

lvLockCompletion ==
  /\ lockPhase = "running"
  /\ lockConfig \cap lvLockFinal # {}
  /\ LET r == lvLockOnDone(lockConfig, lockCtx)
     IN  /\ lockConfig' = r.config
         /\ lockCtx' = r.ctx
  /\ UNCHANGED <<lockMailbox, lockPhase, lockCur, lockPre, lockInv, lockAccepted>>
  /\ UNCHANGED <<doorVars, inflight, sent, lockSeq, doorSeen, persistVars, status>>

\* spawned with syncSnapshot: the end of the lock's macro-step sends its snapshot
lvLockNotify ==
  /\ lockPhase = "running"
  /\ lockConfig \cap lvLockFinal = {}
  /\ lockPhase' = "waiting"
  /\ lockCur' = NoEvent
  /\ lockPre' = NoPre
  /\ lockSeq' = lockSeq + 1
  /\ doorMailbox' = Append(doorMailbox,
                           SnapshotEvent(LockSnapshot, lockSeq + 1, lockCur.type))
  /\ UNCHANGED <<lockConfig, lockCtx, lockMailbox, lockInv, lockAccepted>>
  /\ UNCHANGED <<doorConfig, doorCtx, doorPhase, doorCur, doorPre, doorInv>>
  /\ UNCHANGED <<inflight, sent, doorSeen, persistVars, status>>

lvStep ==
  \/ lvDoorDequeue
  \/ DoorNotify
  \/ lvLockDequeue
  \/ lvLockCompletion
  \/ lvLockNotify

lvNext ==
  \/ SendOpen
  \/ SendClose
  \/ SendLock
  \/ SendUnlock
  \/ lvStep

SpecLiveSnapshot == lvInit /\ [][lvNext]_vars

\* C24: in the variant whose door.open guard reads the lock child's snapshot,
\* under every interleaving of the door's and the lock's mailbox processing the
\* door is never in its open state while the lock is in its locked state.
C24_NeverOpenWhileLocked ==
  ~(Open \in doorConfig /\ Locked \in lockConfig)

====
